---- MODULE Spec2Model ----
(***************************************************************************)
(* Provider integrations of the workflow framework: ClickHouseHook,        *)
(* GithubHook, GithubOperator and the removed HDFS sensors.                *)
(*                                                                         *)
(* Four specifications share the module:                                   *)
(*   Spec           one hook instance (ClickHouseHook or GithubHook):      *)
(*                  construction, get_conn, query                          *)
(*   SpecOperator   GithubOperator: construction and execute               *)
(*   SpecLogParams  the pure function ClickHouseHook._log_params           *)
(*   SpecSensor     construction of the three removed HDFS sensors         *)
(***************************************************************************)
EXTENDS Integers, Sequences, FiniteSets, TLC

VARIABLES
    connections,  \* the credential store: conn_id -> connection descriptor
    hook,         \* the hook instance: its attributes and whether it exists
    clients,      \* every client the client constructors built, in order
    hookRet,      \* outcome of the last hook call seen by the caller
    log,          \* the last line given to self.log.info
    returned,     \* every handle a get_conn call of the caller returned
    calls,        \* number of get_conn / query calls made by the caller
    op,           \* the GithubOperator instance
    opRet,        \* outcome of the last GithubOperator call
    lp,           \* last _log_params call: arguments and returned text
    sensors,      \* the HDFS sensor instances that exist
    sensorRet     \* outcome of the last HDFS sensor construction

hookVars == <<connections, hook, clients, hookRet, log, returned, calls>>
opVars == <<op, opRet>>
lpVars == <<lp>>
sensorVars == <<sensors, sensorRet>>
vars == <<connections, hook, clients, hookRet, log, returned, calls,
          op, opRet, lp, sensors, sensorRet>>

(***************************************************************************)
(* Bounds of the model.                                                    *)
(***************************************************************************)
MaxCalls == 3
MaxParams == 15
MaxLimit == 11
MaxArgs == 2

(***************************************************************************)
(* Python values.  A value is None, a str or an int.  A str is the         *)
(* sequence of its text chunks; strings that int() may read are written    *)
(* one character per chunk.                                                *)
(***************************************************************************)
None == [t |-> "none", s |-> <<>>, n |-> 0]
StrVal(chunks) == [t |-> "str", s |-> chunks, n |-> 0]
IntVal(i) == [t |-> "int", s |-> <<>>, n |-> i]

\* bool(v): None, "" and 0 are falsy
Truthy(v) == CASE v.t = "none" -> FALSE
               [] v.t = "str" -> v.s # <<>>
               [] v.t = "int" -> v.n # 0

\* x or y
Or(x, y) == IF Truthy(x) THEN x ELSE y

\* Exceptions: the class and the text str(error) gives.
NoExc == [type |-> "", msg |-> <<>>]
Exc(type, msg) == [type |-> type, msg |-> msg]

\* The class hierarchy the handlers and the caller see.
Bases(type) == CASE type = "AirflowNotFoundException" -> {"AirflowNotFoundException", "AirflowException", "Exception"}
                 [] type = "UnknownObjectException" -> {"UnknownObjectException", "GithubException", "Exception"}
                 [] type = "" -> {}
                 [] OTHER -> {type, "Exception"}
IsInstance(e, cls) == cls \in Bases(e.type)

Digits == {"0", "1", "2", "3", "4", "5", "6", "7", "8", "9"}
DigitVal(c) == CASE c = "0" -> 0 [] c = "1" -> 1 [] c = "2" -> 2 [] c = "3" -> 3
                 [] c = "4" -> 4 [] c = "5" -> 5 [] c = "6" -> 6 [] c = "7" -> 7
                 [] c = "8" -> 8 [] c = "9" -> 9

RECURSIVE Strip(_)
Strip(s) == IF s = <<>> THEN s
            ELSE IF Head(s) = " " THEN Strip(Tail(s))
            ELSE IF s[Len(s)] = " " THEN Strip(SubSeq(s, 1, Len(s) - 1))
            ELSE s

RECURSIVE DigitsValue(_, _)
DigitsValue(s, acc) == IF s = <<>> THEN acc
                       ELSE DigitsValue(Tail(s), 10 * acc + DigitVal(Head(s)))

\* int(v): an int is itself; a str is stripped, an optional sign is read, and
\* what is left must be one or more decimal digits, or ValueError is raised.
int(v) ==
    IF v.t = "int" THEN [exc |-> NoExc, n |-> v.n]
    ELSE IF v.t = "none"
    THEN [exc |-> Exc("TypeError", <<"int() argument must be a string or a number, not 'NoneType'">>), n |-> 0]
    ELSE LET body == Strip(v.s)
             signed == body # <<>> /\ Head(body) \in {"+", "-"}
             digits == IF signed THEN Tail(body) ELSE body
             valid == digits # <<>> /\ \A i \in 1..Len(digits) : digits[i] \in Digits
             mag == DigitsValue(digits, 0)
         IN IF valid
            THEN [exc |-> NoExc, n |-> IF signed /\ Head(body) = "-" THEN 0 - mag ELSE mag]
            ELSE [exc |-> Exc("ValueError", <<"invalid literal for int() with base 10: ">> \o v.s), n |-> 0]

\* dict.update(key=value) on a keyword mapping
Update(d, key, value) == [k \in DOMAIN d \cup {key} |-> IF k = key THEN value ELSE d[k]]
EmptyDict == [k \in {} |-> None]

(***************************************************************************)
(* Connection descriptors and the credential store.                        *)
(***************************************************************************)
Hosts == {None, StrVal(<<>>), StrVal(<<"db.example.com">>)}
Ports == {None, IntVal(0), IntVal(9000), StrVal(<<>>), StrVal(<<"9", "0", "0", "0">>), StrVal(<<"a", "b", "c">>)}
Logins == {None, StrVal(<<"root">>)}
Passwords == {None, StrVal(<<"pw">>)}
Schemas == {None, StrVal(<<>>), StrVal(<<"default">>)}
ExtraAll == [k \in {"port", "user", "password", "database"} |->
                CASE k = "port" -> IntVal(9440)
                  [] k = "user" -> StrVal(<<"extra_user">>)
                  [] k = "password" -> StrVal(<<"extra_pw">>)
                  [] k = "database" -> StrVal(<<"extra_db">>)]
ExtraOther == [k \in {"database", "compression"} |->
                IF k = "database" THEN StrVal(<<"extra_db">>) ELSE StrVal(<<"lz4">>)]
Extras == {EmptyDict, ExtraAll, ExtraOther}

Descriptors == [host : Hosts, port : Ports, login : Logins, password : Passwords,
                schema : Schemas, extra_dejson : Extras]

\* the value None of an attribute that otherwise holds a descriptor
NoConnection == [none |-> TRUE]

ClickHouseDefault == "clickhouse_default"
GithubDefault == "github_default"
Stores == {[id \in {ClickHouseDefault, GithubDefault} |-> d] : d \in Descriptors}
Databases == {None, StrVal(<<>>), StrVal(<<"analytics">>)}

\* BaseHook.get_connection: the stored descriptor, or AirflowNotFoundException
get_connection(conn_id) ==
    IF conn_id \in DOMAIN connections
    THEN [exc |-> NoExc, conn |-> connections[conn_id]]
    ELSE [exc |-> Exc("AirflowNotFoundException", <<"The conn_id '", conn_id, "' isn't defined">>),
          conn |-> NoConnection]

(***************************************************************************)
(* Query parameters and their text.  A parameter value is a dict, a list,  *)
(* a tuple or a generator over the items it holds, in order; the text of   *)
(* a value is the sequence of its tokens.                                  *)
(***************************************************************************)
NoParams == [kind |-> "none", items |-> <<>>]
Params(kind, n) == [kind |-> kind, items |-> [i \in 1..n |-> i]]
ParamKinds == {"dict", "list", "tuple", "generator"}

ItemRepr(kind, i) == IF kind = "dict"
                     THEN "'k" \o ToString(i) \o "': " \o ToString(i)
                     ELSE "'p" \o ToString(i) \o "'"

\* str(parameters)
str(p) ==
    LET n == Len(p.items)
        joined == [j \in 1..(2 * n - 1) |->
                     IF j % 2 = 1 THEN ItemRepr(p.kind, p.items[(j + 1) \div 2]) ELSE ", "]
    IN CASE p.kind = "generator" -> <<"<generator object>">>
         [] p.kind = "dict" -> <<"{">> \o joined \o <<"}">>
         [] p.kind = "list" -> <<"[">> \o joined \o <<"]">>
         [] p.kind = "tuple" -> <<"(">> \o joined \o (IF n = 1 THEN <<",">> ELSE <<>>) \o <<")">>
         [] OTHER -> <<"None">>

\* bool(parameters): None and empty containers are falsy, a generator is truthy
ParamsTruthy(p) == CASE p.kind = "none" -> FALSE
                     [] p.kind = "generator" -> TRUE
                     [] OTHER -> Len(p.items) > 0

DefaultLimit == 10

\* _log_params cutting already at limit entries.
_log_params_strict(parameters, limit) ==
    IF parameters.kind = "generator" \/ Len(parameters.items) < limit
    THEN str(parameters)
    ELSE LET head == [kind |-> parameters.kind, items |-> SubSeq(parameters.items, 1, limit)]
             head_str == str(head)
             closing_paren == head_str[Len(head_str)]
         IN SubSeq(head_str, 1, Len(head_str) - 1)
              \o <<" ... and ", ToString(Len(parameters.items) - limit), " more parameters", closing_paren>>

\* ClickHouseHook._log_params(parameters, limit); the ellipsis character of
\* the suffix is written "..."
_log_params(parameters, limit) ==
    IF parameters.kind = "generator" \/ Len(parameters.items) <= limit
    THEN str(parameters)
    ELSE LET head == [kind |-> parameters.kind, items |-> SubSeq(parameters.items, 1, limit)]
             head_str == str(head)
             closing_paren == head_str[Len(head_str)]
         IN SubSeq(head_str, 1, Len(head_str) - 1)
              \o <<" ... and ", ToString(Len(parameters.items) - limit), " more parameters", closing_paren>>

\* ClickHouseHook._log_query(sql, parameters): the line given to log.info
_log_query(sql, parameters) ==
    <<sql>> \o (IF ParamsTruthy(parameters)
                THEN <<" with ">> \o _log_params(parameters, DefaultLimit)
                ELSE <<>>)

(***************************************************************************)
(* Client handles.  A handle is the position of the client in clients;   *)
(* NoClient is the attribute value None.  Whether a client constructor     *)
(* raises is the client library's decision: err is NoExc when it         *)
(* returns the new client and the exception when it raises.                *)
(***************************************************************************)
NoClient == 0
CtorErrs == {NoExc, Exc("Error", <<"the client could not be constructed">>)}

\* clickhouse_driver.Client(host, **kwargs)
ClickHouseClient(host, kwargs, err) ==
    [exc |-> err, client |-> [cls |-> "ClickHouseClient", host |-> host, kwargs |-> kwargs]]

\* github.Github(login_or_token=access_token)
GithubClient(login_or_token, err) ==
    [exc |-> err,
     client |-> [cls |-> "Github", host |-> None,
                 kwargs |-> [k \in {"login_or_token"} |-> login_or_token]]]

NoHook == [cls |-> "", state |-> "none", conn_id |-> "", database |-> None,
           connection |-> NoConnection, client |-> NoClient]

(***************************************************************************)
(* ClickHouseHook                                                          *)
(***************************************************************************)
\* The keyword arguments with the extra mapping laid over the descriptor's fields.
connection_kwargs_extra_last(conn, database) ==
    LET port == IF Truthy(conn.port) THEN int(conn.port) ELSE [exc |-> NoExc, n |-> 0]
        kw1 == IF Truthy(conn.port) THEN Update(EmptyDict, "port", IntVal(port.n)) ELSE EmptyDict
        kw2 == IF Truthy(conn.login) THEN Update(kw1, "user", conn.login) ELSE kw1
        kw3 == IF Truthy(conn.password) THEN Update(kw2, "password", conn.password) ELSE kw2
        kw4 == IF Truthy(conn.schema) THEN Update(kw3, "database", conn.schema) ELSE kw3
        kw5 == [k \in DOMAIN kw4 \cup DOMAIN conn.extra_dejson |->
                  IF k \in DOMAIN conn.extra_dejson THEN conn.extra_dejson[k] ELSE kw4[k]]
        kw6 == IF Truthy(database) THEN Update(kw5, "database", database) ELSE kw5
    IN IF port.exc # NoExc THEN [exc |-> port.exc, kwargs |-> EmptyDict]
       ELSE [exc |-> NoExc, kwargs |-> kw6]

\* The keyword arguments with the schema tried before the database argument.
connection_kwargs_schema_first(conn, database) ==
    LET kw0 == conn.extra_dejson
        port == IF Truthy(conn.port) THEN int(conn.port) ELSE [exc |-> NoExc, n |-> 0]
        kw1 == IF Truthy(conn.port) THEN Update(kw0, "port", IntVal(port.n)) ELSE kw0
        kw2 == IF Truthy(conn.login) THEN Update(kw1, "user", conn.login) ELSE kw1
        kw3 == IF Truthy(conn.password) THEN Update(kw2, "password", conn.password) ELSE kw2
        kw4 == IF Truthy(conn.schema) THEN Update(kw3, "database", conn.schema)
               ELSE IF Truthy(database) THEN Update(kw3, "database", database)
               ELSE kw3
    IN IF port.exc # NoExc THEN [exc |-> port.exc, kwargs |-> kw0]
       ELSE [exc |-> NoExc, kwargs |-> kw4]

\* The keyword arguments with the port passed as the descriptor holds it.
connection_kwargs_raw_port(conn, database) ==
    LET kw0 == conn.extra_dejson
        kw1 == IF Truthy(conn.port) THEN Update(kw0, "port", conn.port) ELSE kw0
        kw2 == IF Truthy(conn.login) THEN Update(kw1, "user", conn.login) ELSE kw1
        kw3 == IF Truthy(conn.password) THEN Update(kw2, "password", conn.password) ELSE kw2
        kw4 == IF Truthy(database) THEN Update(kw3, "database", database)
               ELSE IF Truthy(conn.schema) THEN Update(kw3, "database", conn.schema)
               ELSE kw3
    IN [exc |-> NoExc, kwargs |-> kw4]

\* get_conn, the keyword arguments of the client: the extra mapping, then the
\* descriptor's truthy fields, then the database
connection_kwargs(conn, database) ==
    LET kw0 == conn.extra_dejson
        port == IF Truthy(conn.port) THEN int(conn.port) ELSE [exc |-> NoExc, n |-> 0]
        kw1 == IF Truthy(conn.port) THEN Update(kw0, "port", IntVal(port.n)) ELSE kw0
        kw2 == IF Truthy(conn.login) THEN Update(kw1, "user", conn.login) ELSE kw1
        kw3 == IF Truthy(conn.password) THEN Update(kw2, "password", conn.password) ELSE kw2
        kw4 == IF Truthy(database) THEN Update(kw3, "database", database)
               ELSE IF Truthy(conn.schema) THEN Update(kw3, "database", conn.schema)
               ELSE kw3
    IN IF port.exc # NoExc THEN [exc |-> port.exc, kwargs |-> kw0]
       ELSE [exc |-> NoExc, kwargs |-> kw4]

\* get_conn without the check for a cached client.
ClickHouseHook_get_conn_uncached(h, cl, err) ==
    LET found == get_connection(h.conn_id)
        kw == connection_kwargs(found.conn, h.database)
        built == ClickHouseClient(Or(found.conn.host, StrVal(<<"localhost">>)), kw.kwargs, err)
    IN IF found.exc # NoExc
       THEN [exc |-> found.exc, hook |-> h, clients |-> cl, ret |-> NoClient]
       ELSE IF kw.exc # NoExc
       THEN [exc |-> kw.exc, hook |-> h, clients |-> cl, ret |-> NoClient]
       ELSE IF built.exc # NoExc
       THEN [exc |-> built.exc, hook |-> h, clients |-> cl, ret |-> NoClient]
       ELSE [exc |-> NoExc,
             hook |-> [h EXCEPT !.client = Len(cl) + 1],
             clients |-> Append(cl, built.client),
             ret |-> Len(cl) + 1]

\* ClickHouseHook.get_conn on hook h, with cl the clients built so far
ClickHouseHook_get_conn(h, cl, err) ==
    IF h.client # NoClient
    THEN [exc |-> NoExc, hook |-> h, clients |-> cl, ret |-> h.client]
    ELSE LET found == get_connection(h.conn_id)
             kw == connection_kwargs(found.conn, h.database)
             built == ClickHouseClient(Or(found.conn.host, StrVal(<<"localhost">>)), kw.kwargs, err)
         IN IF found.exc # NoExc
            THEN [exc |-> found.exc, hook |-> h, clients |-> cl, ret |-> NoClient]
            ELSE IF kw.exc # NoExc
            THEN [exc |-> kw.exc, hook |-> h, clients |-> cl, ret |-> NoClient]
            ELSE IF built.exc # NoExc
            THEN [exc |-> built.exc, hook |-> h, clients |-> cl, ret |-> NoClient]
            ELSE [exc |-> NoExc,
                  hook |-> [h EXCEPT !.client = Len(cl) + 1],
                  clients |-> Append(cl, built.client),
                  ret |-> Len(cl) + 1]

\* The constructor without its closing get_conn call.
ClickHouseHook_init_lazy(clickhouse_conn_id, database, cl, err) ==
    [exc |-> NoExc,
     hook |-> [cls |-> "ClickHouseHook", state |-> "live", conn_id |-> clickhouse_conn_id,
               database |-> database, connection |-> NoConnection, client |-> NoClient],
     clients |-> cl, ret |-> NoClient]

\* ClickHouseHook.__init__
ClickHouseHook_init(clickhouse_conn_id, database, cl, err) ==
    LET self == [cls |-> "ClickHouseHook", state |-> "live", conn_id |-> clickhouse_conn_id,
                 database |-> database, connection |-> NoConnection, client |-> NoClient]
    IN ClickHouseHook_get_conn(self, cl, err)

\* What client.execute does is the server's decision: a result or an error.
ExecuteOutcomes == {[exc |-> NoExc, value |-> StrVal(<<"rows">>)],
                    [exc |-> Exc("ServerException", <<"Code: 60. Table does not exist">>), value |-> None],
                    [exc |-> Exc("ConnectionError", <<"connection refused">>), value |-> None]}

\* query without its except clause: the error raised inside leaves as it is.
ClickHouseHook_query_unwrapped(h, query, params, outcome) ==
    [exc |-> outcome.exc, cause |-> outcome.exc, value |-> outcome.value,
     log |-> _log_query(query, params)]

\* ClickHouseHook.query(query, params): cause is the error raised inside the try
ClickHouseHook_query(h, query, params, outcome) ==
    LET line == _log_query(query, params)
        cause == IF h.client = NoClient
                 THEN Exc("AttributeError", <<"'NoneType' object has no attribute 'execute'">>)
                 ELSE outcome.exc
    IN IF cause = NoExc
       THEN [exc |-> NoExc, cause |-> NoExc, value |-> outcome.value, log |-> line]
       ELSE [exc |-> Exc("AirflowException", <<"Failed to execute SQL Query, error: ">> \o cause.msg),
             cause |-> cause, value |-> None, log |-> line]

(***************************************************************************)
(* GithubHook                                                              *)
(***************************************************************************)
\* GithubHook.get_conn
GithubHook_get_conn(h, cl, err) ==
    IF h.client # NoClient
    THEN [exc |-> NoExc, hook |-> h, clients |-> cl, ret |-> h.client]
    ELSE LET found == get_connection(h.conn_id)
             access_token == found.conn.password
             built == GithubClient(access_token, err)
         IN IF found.exc # NoExc
            THEN [exc |-> found.exc, hook |-> h, clients |-> cl, ret |-> NoClient]
            ELSE IF built.exc # NoExc
            THEN [exc |-> built.exc, hook |-> [h EXCEPT !.connection = found.conn],
                  clients |-> cl, ret |-> NoClient]
            ELSE [exc |-> NoExc,
                  hook |-> [h EXCEPT !.connection = found.conn, !.client = Len(cl) + 1],
                  clients |-> Append(cl, built.client),
                  ret |-> Len(cl) + 1]

\* GithubHook.__init__
GithubHook_init(github_conn_id, cl, err) ==
    LET self == [cls |-> "GithubHook", state |-> "live", conn_id |-> github_conn_id,
                 database |-> None, connection |-> NoConnection, client |-> NoClient]
    IN GithubHook_get_conn(self, cl, err)

(***************************************************************************)
(* GithubOperator                                                          *)
(***************************************************************************)
\* The methods of the client handle: the keyword names each accepts and needs.
Surface == [m \in {"get_repo", "get_user"} |->
              IF m = "get_repo"
              THEN [accepts |-> {"full_name_or_id", "lazy"}, needs |-> {"full_name_or_id"}]
              ELSE [accepts |-> {"login"}, needs |-> {}]]
MethodNames == DOMAIN Surface \cup {"no_such_method"}

\* github_method_args: None (the default) or a mapping
NoArgs == [isNone |-> TRUE, kw |-> EmptyDict]
Args(kw) == [isNone |-> FALSE, kw |-> kw]
MethodArgs == {NoArgs, Args(EmptyDict),
               Args([k \in {"full_name_or_id"} |-> StrVal(<<"apache/airflow">>)]),
               Args([k \in {"owner"} |-> StrVal(<<"apache">>)])}

\* What the service answers once the call is made: a result or an error.
SdkOutcomes == {[exc |-> NoExc, raw |-> StrVal(<<"Repository(apache/airflow)">>)],
                [exc |-> NoExc, raw |-> None],
                [exc |-> Exc("GithubException", <<"401 Bad credentials">>), raw |-> None],
                [exc |-> Exc("UnknownObjectException", <<"404 Not Found">>), raw |-> None],
                [exc |-> Exc("ConnectionError", <<"connection refused">>), raw |-> None]}

\* getattr(resource, method_name) called with method_args as its keywords
CallMethod(resource, method_name, method_args, sdk) ==
    IF resource = NoClient
    THEN [exc |-> Exc("AttributeError", <<"'NoneType' object has no attribute '", method_name, "'">>),
          raw |-> None]
    ELSE IF method_name \notin DOMAIN Surface
    THEN [exc |-> Exc("AttributeError", <<"'Github' object has no attribute '", method_name, "'">>),
          raw |-> None]
    ELSE IF method_args.isNone
    THEN [exc |-> Exc("TypeError", <<"argument after ** must be a mapping, not NoneType">>), raw |-> None]
    ELSE IF ~(DOMAIN method_args.kw \subseteq Surface[method_name].accepts)
    THEN [exc |-> Exc("TypeError", <<method_name, "() got an unexpected keyword argument">>), raw |-> None]
    ELSE IF ~(Surface[method_name].needs \subseteq DOMAIN method_args.kw)
    THEN [exc |-> Exc("TypeError", <<method_name, "() missing 1 required positional argument">>), raw |-> None]
    ELSE sdk

\* Values execute hands back: the raw result, or what a processor made of it.
Raw(r) == [raw |-> r, processed_by |-> "", context |-> ""]
NoValue == Raw(None)

\* result_processor: None, or a callable.  "summarise" returns a value made of
\* both its arguments, "reject" raises.
NoProcessor == ""
Processors == {NoProcessor, "summarise", "reject"}
CallProcessor(processor, context, github_result) ==
    IF processor = "reject"
    THEN [exc |-> Exc("ValueError", <<"unexpected result">>), value |-> NoValue]
    ELSE [exc |-> NoExc,
          value |-> [raw |-> github_result.raw, processed_by |-> processor, context |-> context]]

Contexts == {"run_1", "run_2"}

\* execute, what follows the call: the raw result with the processor invoked
\* and its value dropped.
process_result_discarded(result_processor, context, github_result) ==
    IF result_processor # NoProcessor
    THEN [exc |-> CallProcessor(result_processor, context, github_result).exc,
          value |-> github_result,
          proc_calls |-> <<[context |-> context, result |-> github_result]>>]
    ELSE [exc |-> NoExc, value |-> github_result, proc_calls |-> <<>>]

\* execute, what follows the call: the processor's value, or the raw result
process_result(result_processor, context, github_result) ==
    IF result_processor # NoProcessor
    THEN LET made == CallProcessor(result_processor, context, github_result)
         IN [exc |-> made.exc, value |-> made.value,
             proc_calls |-> <<[context |-> context, result |-> github_result]>>]
    ELSE [exc |-> NoExc, value |-> github_result, proc_calls |-> <<>>]

\* execute with "except GithubException" as its only except clause.
execute_handlers_github_only(cause) ==
    IF IsInstance(cause, "GithubException")
    THEN Exc("AirflowException", <<"Failed to execute GithubOperator, error: ">> \o cause.msg)
    ELSE cause

\* execute, the except clauses: what is raised for the error cause
execute_handlers(cause) ==
    IF IsInstance(cause, "GithubException")
    THEN Exc("AirflowException", <<"Failed to execute GithubOperator, error: ">> \o cause.msg)
    ELSE IF IsInstance(cause, "Exception")
    THEN Exc("AirflowException", <<"Github operator error: ">> \o cause.msg)
    ELSE cause

NoOp == [state |-> "none", github_conn_id |-> "", method_name |-> "",
         github_method_args |-> NoArgs, result_processor |-> NoProcessor]

\* GithubOperator.__init__
GithubOperator_init(github_method, github_conn_id, github_method_args, result_processor) ==
    [state |-> "ready", github_conn_id |-> github_conn_id, method_name |-> github_method,
     github_method_args |-> github_method_args, result_processor |-> result_processor]

\* GithubOperator.execute(context): cause is the error raised inside the try,
\* sdk_ok tells that the client's method returned, raw what it returned
GithubOperator_execute(self, context, cl, err, sdk) ==
    LET made == GithubHook_init(self.github_conn_id, cl, err)
        resource == made.hook.client
        called == CallMethod(resource, self.method_name, self.github_method_args, sdk)
        done == process_result(self.result_processor, context, Raw(called.raw))
        cause == IF made.exc # NoExc THEN made.exc
                 ELSE IF called.exc # NoExc THEN called.exc
                 ELSE done.exc
        sdk_ok == made.exc = NoExc /\ called.exc = NoExc
    IN [exc |-> IF cause = NoExc THEN NoExc ELSE execute_handlers(cause),
        cause |-> cause,
        value |-> IF cause = NoExc THEN done.value ELSE NoValue,
        clients |-> made.clients,
        sdk_ok |-> sdk_ok,
        raw |-> IF sdk_ok THEN Raw(called.raw) ELSE NoValue,
        proc_calls |-> IF sdk_ok THEN done.proc_calls ELSE <<>>]

(***************************************************************************)
(* The removed HDFS sensors                                                *)
(***************************************************************************)
\* The message, one line of it per element; the grave accents around the pip
\* command are written as apostrophes.
_EXCEPTION_MESSAGE ==
    <<"The old HDFS Sensors have been removed in 4.0.0 version of the apache.hdfs provider.",
      "Please convert your DAGs to use the WebHdfsSensor or downgrade the provider to below 4.*",
      "if you want to continue using it.",
      "If you want to use earlier provider you can downgrade to latest released 3.* version",
      "using 'pip install apache-airflow-providers-apache-hdfs==3.2.1' (no constraints)">>

\* A constructor returns the instance it initialised, or raises.
Instance(cls, args, kwargs) == [cls |-> cls, args |-> args, kwargs |-> kwargs]
Raised(e) == [exc |-> e, instance |-> Instance("", <<>>, EmptyDict)]

\* HdfsSensor.__init__
HdfsSensor_init(args, kwargs) == Raised(Exc("RuntimeError", _EXCEPTION_MESSAGE))

\* HdfsRegexSensor.__init__
HdfsRegexSensor_init(args, kwargs) == Raised(Exc("RuntimeError", _EXCEPTION_MESSAGE))

\* A subclass constructor that raises only when it is given no task_id.
HdfsFolderSensor_init_guarded(args, kwargs) ==
    IF "task_id" \in DOMAIN kwargs
    THEN [exc |-> NoExc, instance |-> Instance("HdfsFolderSensor", args, kwargs)]
    ELSE Raised(Exc("RuntimeError", _EXCEPTION_MESSAGE))

\* HdfsFolderSensor.__init__
HdfsFolderSensor_init(args, kwargs) == Raised(Exc("RuntimeError", _EXCEPTION_MESSAGE))

(***************************************************************************)
(* The hook specification: one hook instance and its caller.               *)
(***************************************************************************)
NoRet == [op |-> "", exc |-> NoExc, cause |-> NoExc, handle |-> NoClient, value |-> None]
NoOpRet == [op |-> "", context |-> "", exc |-> NoExc, cause |-> NoExc, value |-> NoValue,
            sdk_ok |-> FALSE, raw |-> NoValue, proc_calls |-> <<>>]
NoLp == [called |-> FALSE, parameters |-> NoParams, limit |-> DefaultLimit, ret |-> <<>>]
NoSensorRet == [cls |-> "", args |-> <<>>, kwargs |-> EmptyDict, exc |-> NoExc]

Queries == {"SELECT 1"}
QueryParams == {NoParams, Params("dict", 0), Params("dict", 2), Params("list", MaxParams)}

InitHook ==
    /\ connections \in Stores
    /\ hook = NoHook
    /\ clients = <<>>
    /\ hookRet = NoRet
    /\ log = <<>>
    /\ returned = {}
    /\ calls = 0

\* The caller gets the new hook, or the raised exception and no object: a
\* "failed" hook is the object the constructor abandoned.
Constructed(r) ==
    /\ hook' = IF r.exc = NoExc THEN r.hook ELSE [r.hook EXCEPT !.state = "failed"]
    /\ clients' = r.clients
    /\ hookRet' = [op |-> "__init__", exc |-> r.exc, cause |-> r.exc,
                   handle |-> NoClient, value |-> None]
    /\ UNCHANGED <<connections, log, returned, calls>>

\* hook = ClickHouseHook(clickhouse_conn_id, database)
NewClickHouseHook ==
    \E conn_id \in {ClickHouseDefault, "no_such_conn"}, database \in Databases, err \in CtorErrs :
        /\ hook.state = "none"
        /\ Constructed(ClickHouseHook_init(conn_id, database, clients, err))
        /\ UNCHANGED <<opVars, lpVars, sensorVars>>

\* hook = GithubHook(github_conn_id)
NewGithubHook ==
    \E conn_id \in {GithubDefault, "no_such_conn"}, err \in CtorErrs :
        /\ hook.state = "none"
        /\ Constructed(GithubHook_init(conn_id, clients, err))
        /\ UNCHANGED <<opVars, lpVars, sensorVars>>

GotConn(r) ==
    /\ hook' = r.hook
    /\ clients' = r.clients
    /\ hookRet' = [op |-> "get_conn", exc |-> r.exc, cause |-> r.exc,
                   handle |-> r.ret, value |-> None]
    /\ returned' = IF r.exc = NoExc THEN returned \cup {r.ret} ELSE returned
    /\ calls' = calls + 1
    /\ UNCHANGED <<connections, log>>

\* hook.get_conn() on a ClickHouseHook
ClickHouseGetConn ==
    \E err \in CtorErrs :
        /\ hook.state = "live" /\ hook.cls = "ClickHouseHook"
        /\ calls < MaxCalls
        /\ GotConn(ClickHouseHook_get_conn(hook, clients, err))
        /\ UNCHANGED <<opVars, lpVars, sensorVars>>

\* hook.get_conn() on a GithubHook
GithubGetConn ==
    \E err \in CtorErrs :
        /\ hook.state = "live" /\ hook.cls = "GithubHook"
        /\ calls < MaxCalls
        /\ GotConn(GithubHook_get_conn(hook, clients, err))
        /\ UNCHANGED <<opVars, lpVars, sensorVars>>

\* hook.query(query, params) on a ClickHouseHook
ClickHouseQuery ==
    \E query \in Queries, params \in QueryParams, outcome \in ExecuteOutcomes :
        /\ hook.state = "live" /\ hook.cls = "ClickHouseHook"
        /\ calls < MaxCalls
        /\ LET r == ClickHouseHook_query(hook, query, params, outcome)
           IN /\ hookRet' = [op |-> "query", exc |-> r.exc, cause |-> r.cause,
                             handle |-> NoClient, value |-> r.value]
              /\ log' = r.log
        /\ calls' = calls + 1
        /\ UNCHANGED <<connections, hook, clients, returned>>
        /\ UNCHANGED <<opVars, lpVars, sensorVars>>

Init ==
    /\ InitHook
    /\ op = NoOp /\ opRet = NoOpRet
    /\ lp = NoLp
    /\ sensors = {} /\ sensorRet = NoSensorRet

Next ==
    \/ NewClickHouseHook
    \/ NewGithubHook
    \/ ClickHouseGetConn
    \/ GithubGetConn
    \/ ClickHouseQuery

Spec == Init /\ [][Next]_vars

(***************************************************************************)
(* Properties of the hooks (checked under Spec).                           *)
(***************************************************************************)
LiveClickHouse == hook.state = "live" /\ hook.cls = "ClickHouseHook"
\* The descriptor the live hook was built from, and the client it holds.
HookConn == connections[hook.conn_id]
HookClient == clients[hook.client]
Built == LiveClickHouse /\ hook.client # NoClient

\* m ends with the text orig
Carries(m, orig) ==
    /\ Len(m) >= Len(orig)
    /\ SubSeq(m, Len(m) - Len(orig) + 1, Len(m)) = orig

\* C1: for one hook instance (ClickHouseHook or GithubHook), after
\* construction and any number of get_conn calls, every get_conn call returned
\* the handle hook.client, the client constructor has run exactly once in
\* total, and the hook holds that one handle.
C1_SingleCachedHandle ==
    hook.state = "live" =>
        /\ Len(clients) = 1
        /\ hook.client = 1
        /\ returned \subseteq {hook.client}
        /\ hookRet.op = "get_conn" => (hookRet.exc = NoExc /\ hookRet.handle = hook.client)

C1_Witness ==
    /\ hook.state = "live"
    /\ hook.cls = "GithubHook"
    /\ hookRet.op = "get_conn"
    /\ calls >= 2
    /\ returned = {hook.client}
    /\ Len(clients) = 1

\* The keys a truthy primary field of the descriptor defines.
PrimaryKeys(conn) ==
    {k \in {"port", "user", "password", "database"} :
        \/ k = "port" /\ Truthy(conn.port)
        \/ k = "user" /\ Truthy(conn.login)
        \/ k = "password" /\ Truthy(conn.password)
        \/ k = "database" /\ Truthy(conn.schema)}

\* C2 as stated: for every key defined both in the extra mapping and by a
\* primary field, the client gets the extra mapping's value, unless the
\* constructor's database argument sets that key.
C2_ExtraOverPrimary ==
    Built =>
        \A k \in DOMAIN HookConn.extra_dejson \cap PrimaryKeys(HookConn) :
            \/ k = "database" /\ Truthy(hook.database)
            \/ HookClient.kwargs[k] = HookConn.extra_dejson[k]

\* C2 as amended: the layering is database argument > the descriptor's truthy
\* primary fields > the extra mapping.  A key defined by a truthy primary
\* field gets the field's value (the port as an integer) whatever the extra
\* mapping says; the extra mapping's value is passed only for the keys that no
\* truthy primary field and no database argument define.
C2_PrimaryOverExtra ==
    Built =>
        LET conn == HookConn
            kw == HookClient.kwargs
            fromArg == IF Truthy(hook.database) THEN {"database"} ELSE {}
        IN /\ DOMAIN kw = DOMAIN conn.extra_dejson \cup PrimaryKeys(conn) \cup fromArg
           /\ Truthy(conn.port) => (kw["port"].t = "int" /\ kw["port"].n = int(conn.port).n)
           /\ Truthy(conn.login) => kw["user"] = conn.login
           /\ Truthy(conn.password) => kw["password"] = conn.password
           /\ Truthy(hook.database) => kw["database"] = hook.database
           /\ (~Truthy(hook.database) /\ Truthy(conn.schema)) => kw["database"] = conn.schema
           /\ \A k \in DOMAIN conn.extra_dejson \ (PrimaryKeys(conn) \cup fromArg) :
                  kw[k] = conn.extra_dejson[k]

C2_Witness ==
    /\ Built
    /\ HookConn.extra_dejson = ExtraAll
    /\ PrimaryKeys(HookConn) = {"port", "user", "password", "database"}
    /\ ~Truthy(hook.database)
    /\ HookClient.kwargs["port"] = IntVal(9000)
    /\ HookClient.kwargs["user"] = StrVal(<<"root">>)
    /\ HookClient.kwargs["database"] = StrVal(<<"default">>)

\* C3 as stated: every error of a ClickHouseHook, raised while connecting
\* (construction, get_conn) or while executing (query), reaches the caller as
\* AirflowException carrying the original error's message.
C3_AllErrorsWrapped ==
    (hook.cls = "ClickHouseHook" /\ hookRet.exc # NoExc) =>
        /\ IsInstance(hookRet.exc, "AirflowException")
        /\ Carries(hookRet.exc.msg, hookRet.cause.msg)

\* C3 as amended: an error raised while executing (query) reaches the caller
\* as AirflowException whose message is "Failed to execute SQL Query, error: "
\* followed by the original error's message, and query returns the client's
\* result when nothing is raised; an error raised while connecting leaves the
\* constructor unwrapped, in its own type: AirflowNotFoundException from the
\* descriptor lookup, ValueError from the port conversion, the client
\* constructor's own error.
C3_QueryErrorsWrapped ==
    /\ (hook.cls = "ClickHouseHook" /\ hookRet.op = "query") =>
          IF hookRet.cause = NoExc
          THEN hookRet.exc = NoExc /\ hookRet.value # None
          ELSE /\ hookRet.exc.type = "AirflowException"
               /\ hookRet.exc.msg = <<"Failed to execute SQL Query, error: ">> \o hookRet.cause.msg
    /\ (hook.cls = "ClickHouseHook" /\ hook.state = "failed") =>
          /\ hookRet.op = "__init__"
          /\ IF hook.conn_id \notin DOMAIN connections
             THEN hookRet.exc.type = "AirflowNotFoundException"
             ELSE IF HookConn.port = StrVal(<<"a", "b", "c">>)
             THEN hookRet.exc.type = "ValueError"
             ELSE hookRet.exc \in CtorErrs \ {NoExc}

C3_Witness ==
    /\ LiveClickHouse
    /\ hookRet.op = "query"
    /\ hookRet.cause.type = "ServerException"
    /\ hookRet.exc.type = "AirflowException"
    /\ Carries(hookRet.exc.msg, <<"Code: 60. Table does not exist">>)

\* C5: when the constructor's database argument and the descriptor's schema
\* are both present (given and not empty), the client is built with database
\* equal to the argument; the schema is the database only when no database
\* argument was given.
C5_DatabaseArgumentWins ==
    Built =>
        LET conn == HookConn
            kw == HookClient.kwargs
        IN /\ (Truthy(hook.database) /\ Truthy(conn.schema)) =>
                  (kw["database"] = hook.database /\ kw["database"] # conn.schema)
           /\ (Truthy(conn.schema) /\ "database" \in DOMAIN kw /\ kw["database"] = conn.schema) =>
                  ~Truthy(hook.database)
           /\ (~Truthy(hook.database) /\ Truthy(conn.schema)) => kw["database"] = conn.schema

C5_Witness ==
    /\ Built
    /\ hook.database = StrVal(<<"analytics">>)
    /\ HookConn.schema = StrVal(<<"default">>)
    /\ HookClient.kwargs["database"] = StrVal(<<"analytics">>)

\* The descriptor of the end-to-end scenario.
ExampleConn == [host |-> StrVal(<<"db.example.com">>), port |-> StrVal(<<"9", "0", "0", "0">>),
                login |-> StrVal(<<"root">>), password |-> StrVal(<<"pw">>),
                schema |-> StrVal(<<"default">>), extra_dejson |-> EmptyDict]
ExampleKwargs == [k \in {"port", "user", "password", "database"} |->
                    CASE k = "port" -> IntVal(9000)
                      [] k = "user" -> StrVal(<<"root">>)
                      [] k = "password" -> StrVal(<<"pw">>)
                      [] k = "database" -> StrVal(<<"default">>)]

\* C6: with an empty extra mapping and no database argument, the client is
\* built with the descriptor's host, or localhost when the host is unset, and
\* with port (as an integer), user, password and database exactly for the
\* descriptor fields that are present and truthy; the example descriptor
\* gives host db.example.com, port=9000, user=root, password=pw,
\* database=default.
C6_PlainDescriptor ==
    (Built /\ HookConn.extra_dejson = EmptyDict /\ ~Truthy(hook.database)) =>
        LET conn == HookConn
            kw == HookClient.kwargs
        IN /\ HookClient.host = (IF conn.host \in {None, StrVal(<<>>)}
                                 THEN StrVal(<<"localhost">>) ELSE conn.host)
           /\ DOMAIN kw = PrimaryKeys(conn)
           /\ "port" \in DOMAIN kw =>
                  kw["port"] = (IF conn.port.t = "int" THEN conn.port ELSE IntVal(9000))
           /\ "user" \in DOMAIN kw => kw["user"] = conn.login
           /\ "password" \in DOMAIN kw => kw["password"] = conn.password
           /\ "database" \in DOMAIN kw => kw["database"] = conn.schema
           /\ conn = ExampleConn =>
                  (HookClient.host = StrVal(<<"db.example.com">>) /\ kw = ExampleKwargs)

C6_Witness ==
    /\ Built
    /\ hook.database = None
    /\ HookConn = ExampleConn
    /\ HookClient.host = StrVal(<<"db.example.com">>)
    /\ HookClient.kwargs = ExampleKwargs

\* C10 as stated: constructing a hook resolves no descriptor and builds no
\* client handle; the handle is built on the first get_conn call and not
\* before.
C10_LazyInit ==
    (hookRet.op = "__init__" /\ hookRet.exc = NoExc) =>
        (hook.client = NoClient /\ clients = <<>>)

\* C10 as amended: the handle is built eagerly.  The constructor itself
\* resolves the descriptor and builds the client, so a hook that exists holds
\* its handle from construction on (a GithubHook its descriptor too), a
\* conn_id the store does not know fails the construction, and the handle
\* stays cached for the hook's lifetime.
C10_EagerInit ==
    /\ hook.state = "live" =>
          /\ hook.client # NoClient
          /\ hook.client = 1 /\ Len(clients) = 1
          /\ hook.conn_id \in DOMAIN connections
          /\ hook.cls = "GithubHook" => hook.connection = connections[hook.conn_id]
    /\ (hookRet.op = "__init__" /\ hookRet.exc = NoExc) =>
          (hook.state = "live" /\ hook.client = 1 /\ Len(clients) = 1)
    /\ hook.conn_id \notin DOMAIN connections => hook.state # "live"

C10_Witness ==
    /\ hookRet.op = "__init__"
    /\ hookRet.exc = NoExc
    /\ hook.state = "live"
    /\ hook.client = 1
    /\ calls = 0

(***************************************************************************)
(* The operator specification: one GithubOperator and the engine that      *)
(* runs it.                                                                *)
(***************************************************************************)
TokenStore == [id \in {GithubDefault} |->
                 [host |-> None, port |-> None, login |-> None, password |-> StrVal(<<"ghp_token">>),
                  schema |-> None, extra_dejson |-> EmptyDict]]
AnonymousStore == [id \in {GithubDefault} |->
                     [host |-> None, port |-> None, login |-> None, password |-> None,
                      schema |-> None, extra_dejson |-> EmptyDict]]

InitOperator ==
    /\ connections \in {TokenStore, AnonymousStore}
    /\ hook = NoHook /\ clients = <<>> /\ hookRet = NoRet
    /\ log = <<>> /\ returned = {} /\ calls = 0
    /\ op = NoOp /\ opRet = NoOpRet
    /\ lp = NoLp
    /\ sensors = {} /\ sensorRet = NoSensorRet

\* op = GithubOperator(github_method=..., github_conn_id=..., ...)
NewGithubOperator ==
    \E method \in MethodNames, conn_id \in {GithubDefault, "no_such_conn"},
       args \in MethodArgs, processor \in Processors :
        /\ op.state = "none"
        /\ op' = GithubOperator_init(method, conn_id, args, processor)
        /\ UNCHANGED <<opRet, hookVars, lpVars, sensorVars>>

\* op.execute(context)
GithubExecute ==
    \E context \in Contexts, err \in CtorErrs, sdk \in SdkOutcomes :
        /\ op.state = "ready"
        /\ calls < MaxCalls
        /\ LET r == GithubOperator_execute(op, context, clients, err, sdk)
           IN /\ opRet' = [op |-> "execute", context |-> context, exc |-> r.exc,
                           cause |-> r.cause, value |-> r.value, sdk_ok |-> r.sdk_ok,
                           raw |-> r.raw, proc_calls |-> r.proc_calls]
              /\ clients' = r.clients
        /\ calls' = calls + 1
        /\ UNCHANGED <<op, connections, hook, hookRet, log, returned, lpVars, sensorVars>>

NextOperator ==
    \/ NewGithubOperator
    \/ GithubExecute

SpecOperator == InitOperator /\ [][NextOperator]_vars

InitLogParams ==
    /\ connections = TokenStore
    /\ hook = NoHook /\ clients = <<>> /\ hookRet = NoRet
    /\ log = <<>> /\ returned = {} /\ calls = 0
    /\ op = NoOp /\ opRet = NoOpRet
    /\ lp = NoLp
    /\ sensors = {} /\ sensorRet = NoSensorRet

\* _log_params(parameters, limit)
LogParams ==
    \E kind \in ParamKinds, n \in 0..MaxParams, limit \in 0..MaxLimit :
        /\ lp' = [called |-> TRUE, parameters |-> Params(kind, n), limit |-> limit,
                  ret |-> _log_params(Params(kind, n), limit)]
        /\ UNCHANGED <<hookVars, opVars, sensorVars>>

\* _log_params(parameters), the limit left at its default
LogParamsDefaultLimit ==
    \E kind \in ParamKinds, n \in 0..MaxParams :
        /\ lp' = [called |-> TRUE, parameters |-> Params(kind, n), limit |-> DefaultLimit,
                  ret |-> _log_params(Params(kind, n), DefaultLimit)]
        /\ UNCHANGED <<hookVars, opVars, sensorVars>>

NextLogParams ==
    \/ LogParams
    \/ LogParamsDefaultLimit

SpecLogParams == InitLogParams /\ [][NextLogParams]_vars

\* The entries shown in a text, in order.
EntriesIn(text, kind) ==
    LET IsEntry(t) == t \in {ItemRepr(kind, i) : i \in 1..MaxParams}
    IN SelectSeq(text, IsEntry)
Opening(kind) == IF kind = "dict" THEN "{" ELSE IF kind = "list" THEN "[" ELSE "("
Closing(kind) == IF kind = "dict" THEN "}" ELSE IF kind = "list" THEN "]" ELSE ")"

\* C7: for a mapping or sequence with n entries and a preview limit L,
\* _log_params returns the full text (all n entries, no suffix) when n <= L,
\* and when n > L the first L entries, then the suffix "(n - L) more
\* parameters" and the closing bracket; a cut preview shows exactly L entries.
C7_BoundedPreview ==
    (lp.called /\ lp.parameters.kind \in {"dict", "list", "tuple"}) =>
        LET kind == lp.parameters.kind
            items == lp.parameters.items
            n == Len(items)
            L == lp.limit
            out == lp.ret
            shown == EntriesIn(out, kind)
        IN /\ out[1] = Opening(kind) /\ out[Len(out)] = Closing(kind)
           /\ IF n <= L
              THEN /\ shown = [i \in 1..n |-> ItemRepr(kind, items[i])]
                   /\ \A j \in 1..Len(out) : out[j] # " more parameters"
              ELSE /\ shown = [i \in 1..L |-> ItemRepr(kind, items[i])]
                   /\ Len(shown) = L
                   /\ SubSeq(out, Len(out) - 3, Len(out))
                        = <<" ... and ", ToString(n - L), " more parameters", Closing(kind)>>

C7_Witness ==
    /\ lp.called
    /\ lp.parameters = Params("dict", 15)
    /\ lp.limit = 10
    /\ Len(EntriesIn(lp.ret, "dict")) = 10
    /\ SubSeq(lp.ret, Len(lp.ret) - 3, Len(lp.ret)) = <<" ... and ", "5", " more parameters", "}">>

(***************************************************************************)
(* The sensor specification: a DAG file constructing the removed sensors.  *)
(***************************************************************************)
ArgValues == {StrVal(<<"/data/in">>), IntVal(1)}
RECURSIVE ArgLists(_)
ArgLists(n) == IF n = 0 THEN {<<>>}
               ELSE ArgLists(n - 1) \cup {Append(a, v) : a \in ArgLists(n - 1), v \in ArgValues}
KwargNames == {"task_id", "filepath", "hdfs_conn_id"}
Kwargs == {[k \in names |-> StrVal(<<k>>)] : names \in SUBSET KwargNames}

InitSensor ==
    /\ connections = TokenStore
    /\ hook = NoHook /\ clients = <<>> /\ hookRet = NoRet
    /\ log = <<>> /\ returned = {} /\ calls = 0
    /\ op = NoOp /\ opRet = NoOpRet
    /\ lp = NoLp
    /\ sensors = {} /\ sensorRet = NoSensorRet

\* The instances that exist after a constructor call with outcome r.
Existing(r) == IF r.exc = NoExc THEN sensors \cup {r.instance} ELSE sensors

\* HdfsSensor(args..., kwargs...)
NewHdfsSensor ==
    \E args \in ArgLists(MaxArgs), kwargs \in Kwargs :
        LET r == HdfsSensor_init(args, kwargs)
        IN /\ sensors' = Existing(r)
           /\ sensorRet' = [cls |-> "HdfsSensor", args |-> args, kwargs |-> kwargs, exc |-> r.exc]
           /\ UNCHANGED <<hookVars, opVars, lpVars>>

\* HdfsRegexSensor(args..., kwargs...)
NewHdfsRegexSensor ==
    \E args \in ArgLists(MaxArgs), kwargs \in Kwargs :
        LET r == HdfsRegexSensor_init(args, kwargs)
        IN /\ sensors' = Existing(r)
           /\ sensorRet' = [cls |-> "HdfsRegexSensor", args |-> args, kwargs |-> kwargs, exc |-> r.exc]
           /\ UNCHANGED <<hookVars, opVars, lpVars>>

\* HdfsFolderSensor(args..., kwargs...)
NewHdfsFolderSensor ==
    \E args \in ArgLists(MaxArgs), kwargs \in Kwargs :
        LET r == HdfsFolderSensor_init(args, kwargs)
        IN /\ sensors' = Existing(r)
           /\ sensorRet' = [cls |-> "HdfsFolderSensor", args |-> args, kwargs |-> kwargs, exc |-> r.exc]
           /\ UNCHANGED <<hookVars, opVars, lpVars>>

NextSensor ==
    \/ NewHdfsSensor
    \/ NewHdfsRegexSensor
    \/ NewHdfsFolderSensor

SpecSensor == InitSensor /\ [][NextSensor]_vars

\* C9: constructing HdfsSensor, HdfsRegexSensor or HdfsFolderSensor, with
\* any positional and keyword arguments, raises RuntimeError with the fixed
\* replacement-guidance message, and no instance of them ever exists.
C9_RemovedSensorsRaise ==
    /\ sensors = {}
    /\ sensorRet.cls # "" =>
          /\ sensorRet.exc.type = "RuntimeError"
          /\ sensorRet.exc.msg = _EXCEPTION_MESSAGE
          /\ Len(sensorRet.exc.msg) = 5
          /\ sensorRet.exc.msg[2] = "Please convert your DAGs to use the WebHdfsSensor or downgrade the provider to below 4.*"

C9_Witness ==
    /\ sensorRet.cls = "HdfsFolderSensor"
    /\ Len(sensorRet.args) = 2
    /\ DOMAIN sensorRet.kwargs = KwargNames
    /\ sensorRet.exc.type = "RuntimeError"
    /\ sensors = {}

====
